---- MODULE Spec2Model ----
(***************************************************************************)
(* Model of main.py: the command-line entry point, setup(), the batch loop  *)
(* loop_registrations() and the provisioning coroutine register().         *)
(*                                                                         *)
(* One process, one thread: asyncio.run() drives one coroutine at a time,  *)
(* so the program is a sequential state machine whose position is pc.  An  *)
(* exception raised by a collaborator is never caught in main.py: it       *)
(* unwinds register(), asyncio.run() and the caller, and the interpreter   *)
(* ends the process with status 1.                                         *)
(***************************************************************************)
EXTENDS Integers, Sequences, FiniteSets, TLC

(* ---------------- bounds of the model ---------------- *)

\* Largest value of --loop that is explored.
MaxLoop == 3

(* ---------------- values ---------------- *)

\* An optional value: None is the empty tuple, a value x present is << x >>.
\* A path is a tuple of components, so None is also the path never given.
None == << >>

Some(x) == << x >>

Get(v) == v[1]

\* File sizes reach 2*10^10, beyond the 32-bit integers of TLC: a size is
\* kept as g*10^9 + b bytes with 0 <= b < 10^9, compared by (g, b).
Size(g, b) == [g |-> g, b |-> b]

SizeLess(a, b) == a.g < b.g \/ (a.g = b.g /\ a.b < b.b)

SizeLeq(a, b) == a = b \/ SizeLess(a, b)

Zero == Size(0, 0)

\* 5e9, line 264.
WarnLimit == Size(5, 0)

\* 2e10, line 263.
RejectLimit == Size(20, 0)

\* The sizes around every boundary of the upload rule.
Sizes ==
    { Size(0, 0), Size(0, 1), Size(4, 999999999), Size(5, 0),
      Size(19, 999999999), Size(20, 0), Size(20, 1) }

\* What os.path.getsize reports for a directory: 0 or one block.
DirSizes == { Size(0, 0), Size(0, 4096) }

\* Sizes of an archive written by shutil.make_archive (never empty).
ArchiveSizes == { Size(0, 22), Size(5, 0), Size(20, 0) }

(* ---------------- paths and the file system ---------------- *)

\* A path is a sequence of components; "/" is a trailing separator and
\* ".zip" the suffix appended by archive_folder.
FilePath == << "f" >>
DirPath == << "d" >>
DirSlashPath == << "d", "/" >>
MissingPath == << "m" >>

UploadPaths == { FilePath, DirPath, DirSlashPath, MissingPath }

AllPaths ==
    UploadPaths \cup { << "d", ".zip" >>, << "d", "/", ".zip" >> }

Absent == [kind |-> "none", size |-> Zero]

RECURSIVE rstrip(_)
\* str.rstrip("/\\"): drop every trailing separator.
rstrip(p) ==
    IF Len(p) > 0 /\ p[Len(p)] = "/" THEN rstrip(SubSeq(p, 1, Len(p) - 1)) ELSE p

\* The entry a path resolves to: a trailing separator names the same
\* directory.
Stat(files, p) == files[rstrip(p)]

exists(files, p) == Stat(files, p).kind # "none"

isdir(files, p) == Stat(files, p).kind = "dir"

getsize(files, p) == Stat(files, p).size

(* ---------------- state ---------------- *)

VARIABLES
    pc,              \* the statement the process executes next
    exitStatus,      \* None while running, then the process's exit status
    console_args,    \* the parsed command line (line 114); file is reassigned
    configFile,      \* the configuration file on disk: None or a Config
    config,          \* the Config value returned by setup()
    executable_path, \* the executable path returned by setup()
    fs,              \* the files the upload path may name
    tmp,             \* the working directory ./tmp: "stale", "empty", "profile"
    i,               \* the loop variable _ of loop_registrations
    credentials,     \* the Credentials in use: the number of its generation
    generated,       \* how many Credentials generate_mail has produced
    visited,         \* the orchestrator states the current register() call
                     \* has entered, in order
    sessions,        \* browser processes alive (autoClose is False)
    run,             \* what the current register() call has done so far
    message,         \* the local variable message of register()
    accounts,        \* the credential records persisted by save_credentials
    uploads,         \* the calls of upload_file
    trace,           \* the collaborator calls made, in order
    results          \* one record per register() call that has ended

vars ==
    << pc, exitStatus, console_args, configFile, config, executable_path, fs,
       tmp, i, credentials, generated, visited, sessions, run, message,
       accounts, uploads, trace, results >>

\* The orchestrator state of the current register() call.
state == IF visited = << >> THEN "none" ELSE visited[Len(visited)]

\* --loop values: absent, or an integer (argparse type=int).
LoopArgs == { None } \cup { Some(n) : n \in -1 .. MaxLoop }

\* console_args.loop is None or console_args.loop <= 1 (line 272); its
\* negation is the test of line 293.
SingleShot(loop) == loop = None \/ Get(loop) <= 1

ExecutablePaths == { "", "chrome" }

\* What the user may type at the prompt of setup().
TypedPaths == { "", "chrome", "bogus" }

\* os.path.exists(executable_path), line 138: only "chrome" is installed.
ExecutableExists(path) == path = "chrome"

Configs == [executablePath : ExecutablePaths, accountFormat : { "fmt" }]

\* A register() call that has not done anything yet.  visited and open are
\* filled in when the call ends (EndRun).
NewRun ==
    [ cred |-> 0, visited |-> << >>, open |-> 0, opened |-> FALSE,
      closes |-> 0, polls |-> 0, setupWith |-> "not called",
      persisted |-> FALSE, decision |-> "none", printed |-> {},
      error |-> "none" ]

\* One collaborator call: its name, the Credentials in use and the number
\* of browser sessions alive when it was made.
Ev(op) == [op |-> op, cred |-> credentials, open |-> sessions]

\* The file system before the program starts: the file has any of the
\* sizes, the directory any of the directory sizes, nothing else exists.
InitialFs ==
    { [p \in { rstrip(q) : q \in AllPaths } |->
          IF p = FilePath THEN [kind |-> "file", size |-> s]
          ELSE IF p = DirPath THEN [kind |-> "dir", size |-> d]
          ELSE Absent] : s \in Sizes, d \in DirSizes }

Init ==
    /\ pc = "main"
    /\ exitStatus = None
    /\ console_args \in
           [ convert : BOOLEAN, extract : BOOLEAN, keepalive : BOOLEAN,
             file : { None } \cup UploadPaths, public : BOOLEAN,
             loop : LoopArgs ]
    /\ configFile \in { None } \cup { Some(c) : c \in Configs }
    /\ config = None
    /\ executable_path = ""
    /\ fs \in InitialFs
    \* entries and flags the run never reads are held at one value
    /\ console_args.file # FilePath => fs[FilePath].size = Size(0, 1)
    /\ console_args.file \notin { DirPath, DirSlashPath } => fs[DirPath].size = Zero
    /\ console_args.file = None => ~console_args.public
    /\ tmp = "stale"
    /\ i = 0
    /\ credentials = 0
    /\ generated = 0
    /\ visited = << >>
    /\ sessions = 0
    /\ run = NewRun
    /\ message = None
    /\ accounts = << >>
    /\ uploads = << >>
    /\ trace = << >>
    /\ results = << >>

(* ---------------- process exit and exceptions ---------------- *)

\* sys.exit(status), or falling off the end of the script (status 0).
Exit(status) ==
    /\ pc' = "exited"
    /\ exitStatus' = Some(status)

\* The calls made by the statement at p: the two awaited sleeps come
\* right before get_mail (line 245) and browser.close (line 249).
Calls(p) == IF p \in { "get_mail", "close" } THEN << Ev("sleep"), Ev(p) >>
            ELSE << Ev(p) >>

\* The awaited collaborator calls of lines 225-250, each of which may raise.
Awaited ==
    { "launch", "createContext", "newPage", "type_name", "type_password",
      "finish_form", "mail_login", "get_mail", "initial_setup", "close" }

\* The register() call in progress ends, normally or by an exception,
\* having entered the states vis; no statement that ends it changes
\* sessions.
EndRun(r, vis) ==
    results' = Append(results, [r EXCEPT !.visited = vis, !.open = sessions])

\* Raise as it would be with a handler around line 220 that goes on to the
\* next iteration (and no close of the browser).
RaiseCaught(r, kind, vis) ==
    /\ EndRun([r EXCEPT !.error = kind], vis)
    /\ trace' = Append(IF kind \in Awaited THEN trace \o Calls(kind) ELSE trace,
                        Ev("raise"))
    /\ IF SingleShot(console_args.loop)
       THEN /\ Exit(1)
            /\ UNCHANGED i
       ELSE /\ pc' = "loop"
            /\ i' = i + 1
            /\ UNCHANGED exitStatus

\* An exception raised inside register().  Neither register() nor
\* loop_registrations() nor the script holds a try statement: the exception
\* leaves asyncio.run(), ends the loop and the interpreter exits with
\* status 1.
Raise(r, kind, vis) ==
    /\ EndRun([r EXCEPT !.error = kind], vis)
    /\ trace' = Append(IF kind \in Awaited THEN trace \o Calls(kind) ELSE trace,
                        Ev("raise"))
    /\ Exit(1)
    /\ UNCHANGED i

(* ---------------- the script, lines 276-304 ---------------- *)

\* Lines 277-282: clear_console, check_for_updates, then --convert.
Main ==
    /\ pc = "main"
    /\ IF console_args.convert
       THEN /\ Exit(0)
            /\ trace' = Append(trace, Ev("convert_accounts"))
       ELSE /\ pc' = "setup"
            /\ UNCHANGED << exitStatus, trace >>
    /\ UNCHANGED << console_args, configFile, config, executable_path, fs, tmp,
                    i, credentials, generated, visited, sessions, run, message,
                    accounts, uploads, results >>

\* write_default_config followed by concrete_read_config: the file holds a
\* default Config afterwards.
DefaultConfigs == Configs

\* Setup as it would be with the sys.exit(1) of line 143 left out: setup()
\* returns the path that does not exist.
SetupReturnsMissingPath(typed, default) ==
    /\ pc = "setup"
    /\ LET cfg == IF configFile = None THEN default ELSE Get(configFile)
           path == IF configFile = None THEN "" ELSE cfg.executablePath
       IN  IF path # ""
           THEN /\ config' = Some(cfg)
                /\ executable_path' = path
                /\ configFile' = configFile
                /\ trace' = trace
                /\ pc' = "dispatch"
                /\ UNCHANGED exitStatus
           ELSE IF ExecutableExists(typed)
           THEN \* "Found executable!": write_config
                /\ config' = Some([cfg EXCEPT !.executablePath = typed])
                /\ configFile' = Some([cfg EXCEPT !.executablePath = typed])
                /\ executable_path' = typed
                /\ trace' = Append(trace, Ev("write_config"))
                /\ pc' = "dispatch"
                /\ UNCHANGED exitStatus
           ELSE \* "Failed to find executable!": sys.exit(1)
                /\ config' = Some(cfg)
                /\ configFile' = Some(cfg)
                /\ executable_path' = typed
                /\ trace' = trace
                /\ pc' = "dispatch"
                /\ UNCHANGED exitStatus
    /\ UNCHANGED << console_args, fs, tmp, i, credentials, generated, visited,
                    sessions, run, message, accounts, uploads, results >>

\* setup(), lines 117-145, called at line 284.  typed is what
\* the user answers at the prompt, read only when no path is configured.
Setup(typed, default) ==
    /\ pc = "setup"
    /\ LET cfg == IF configFile = None THEN default ELSE Get(configFile)
           path == IF configFile = None THEN "" ELSE cfg.executablePath
       IN  IF path # ""
           THEN /\ config' = Some(cfg)
                /\ executable_path' = path
                /\ configFile' = configFile
                /\ trace' = trace
                /\ pc' = "dispatch"
                /\ UNCHANGED exitStatus
           ELSE IF ExecutableExists(typed)
           THEN \* "Found executable!": write_config
                /\ config' = Some([cfg EXCEPT !.executablePath = typed])
                /\ configFile' = Some([cfg EXCEPT !.executablePath = typed])
                /\ executable_path' = typed
                /\ trace' = Append(trace, Ev("write_config"))
                /\ pc' = "dispatch"
                /\ UNCHANGED exitStatus
           ELSE \* "Failed to find executable!": sys.exit(1)
                /\ config' = Some(cfg)
                /\ configFile' = Some(cfg)
                /\ executable_path' = typed
                /\ trace' = trace
                /\ Exit(1)
    /\ UNCHANGED << console_args, fs, tmp, i, credentials, generated, visited,
                    sessions, run, message, accounts, uploads, results >>

\* Lines 285-295: the check of what setup() returned, then the mode of
\* the invocation.
Dispatch ==
    /\ pc = "dispatch"
    /\ IF executable_path = ""
       THEN \* "Failed while setting up!"
            /\ Exit(1)
            /\ UNCHANGED trace
       ELSE IF console_args.extract
       THEN /\ trace' = Append(trace, Ev("extract_credentials"))
            /\ Exit(0)
       ELSE IF console_args.keepalive
       THEN /\ trace' = Append(trace, Ev("keepalive"))
            /\ Exit(0)
       ELSE IF ~SingleShot(console_args.loop)
       THEN /\ pc' = "loop"
            /\ UNCHANGED << exitStatus, trace >>
       ELSE /\ pc' = "single"
            /\ UNCHANGED << exitStatus, trace >>
    /\ i' = 0
    /\ UNCHANGED << console_args, configFile, config, executable_path, fs, tmp,
                    credentials, generated, visited, sessions, run, message,
                    accounts, uploads, results >>

\* clear_tmp(): ./tmp is deleted and recreated empty.
clear_tmp == tmp' = "empty"

\* generate_mail(): a fresh Credentials value, the next one generated.
generate_mail ==
    /\ generated' = generated + 1
    /\ credentials' = generated + 1

\* archive_folder(folder_path), lines 148-157, applied to console_args.file:
\* the archive is written to folder_path + ".zip", the path returned is
\* folder_path.rstrip("/\\") + ".zip".
archive_folder(folder_path, size) ==
    IF ~isdir(fs, folder_path)
    THEN /\ console_args' = [console_args EXCEPT !.file = folder_path]
         /\ fs' = fs
    ELSE /\ console_args' =
                [console_args EXCEPT !.file = rstrip(folder_path) \o << ".zip" >>]
         /\ fs' = [fs EXCEPT ![folder_path \o << ".zip" >>] =
                                 [kind |-> "file", size |-> size]]

\* The call register(credentials, executable_path, config) begins.
CallRegister ==
    /\ pc' = "launch"
    /\ visited' = << "INIT" >>
    /\ run' = [NewRun EXCEPT !.cred = credentials']
    /\ message' = None

\* LoopIteration as it would be with generate_mail hoisted out of the loop:
\* the Credentials of the first iteration is passed to every call.
LoopIterationReusesCredentials ==
    /\ pc = "loop"
    /\ i < Get(console_args.loop)
    /\ clear_tmp
    /\ IF i = 0 THEN generate_mail ELSE UNCHANGED << generated, credentials >>
    /\ CallRegister
    /\ trace' = trace \o << Ev("clear_tmp"),
                            [Ev("generate_mail") EXCEPT !.cred = credentials'],
                            [Ev("register") EXCEPT !.cred = credentials'] >>
    /\ UNCHANGED << exitStatus, console_args, configFile, config,
                    executable_path, fs, i, sessions, accounts, uploads,
                    results >>

\* Lines 215-220, one iteration up to the call of register(); the loop ends
\* and the script with it when range(loop_count) is exhausted.
LoopIteration ==
    /\ pc = "loop"
    /\ i < Get(console_args.loop)
    /\ clear_tmp
    /\ generate_mail
    /\ CallRegister
    /\ trace' = trace \o << Ev("clear_tmp"),
                            [Ev("generate_mail") EXCEPT !.cred = generated + 1],
                            [Ev("register") EXCEPT !.cred = generated + 1] >>
    /\ UNCHANGED << exitStatus, console_args, configFile, config,
                    executable_path, fs, i, sessions, accounts, uploads,
                    results >>

LoopEnd ==
    /\ pc = "loop"
    /\ i >= Get(console_args.loop)
    /\ Exit(0)
    /\ UNCHANGED << console_args, configFile, config, executable_path, fs, tmp,
                    i, credentials, generated, visited, sessions, run, message,
                    accounts, uploads, trace, results >>

\* Lines 296-304: the single-shot branch up to the call of register().
Single(size) ==
    /\ pc = "single"
    /\ clear_tmp
    /\ generate_mail
    /\ IF console_args.file # None /\ isdir(fs, console_args.file)
       THEN /\ archive_folder(console_args.file, size)
            /\ trace' = trace \o << Ev("clear_tmp"),
                            [Ev("generate_mail") EXCEPT !.cred = generated + 1],
                            [Ev("archive_folder") EXCEPT !.cred = generated + 1],
                            [Ev("register") EXCEPT !.cred = generated + 1] >>
       ELSE /\ UNCHANGED << console_args, fs >>
            /\ trace' = trace \o << Ev("clear_tmp"),
                            [Ev("generate_mail") EXCEPT !.cred = generated + 1],
                            [Ev("register") EXCEPT !.cred = generated + 1] >>
    /\ CallRegister
    /\ UNCHANGED << exitStatus, configFile, config, executable_path, i,
                    sessions, accounts, uploads, results >>

(* ---------------- register(), lines 223-273 ---------------- *)

\* What the calls of register() leave alone.
Ambient == << console_args, configFile, config, executable_path, fs,
              credentials, generated >>

\* Launch as it would be if register() cleared the configured path through
\* write_config before launching.
LaunchWritesConfig ==
    /\ pc = "launch"
    /\ pc' = "createContext"
    /\ sessions' = sessions + 1
    /\ tmp' = "profile"
    /\ run' = [run EXCEPT !.opened = TRUE]
    /\ trace' = trace \o Calls("launch")
    /\ config' = Some([Get(config) EXCEPT !.executablePath = ""])
    /\ configFile' = config'
    /\ UNCHANGED << exitStatus, i, visited, message, accounts, uploads,
                    results >>
    /\ UNCHANGED << console_args, executable_path, fs, credentials, generated >>

\* Lines 225-235: pyppeteer.launch starts a browser on ./tmp.
Launch ==
    /\ pc = "launch"
    /\ pc' = "createContext"
    /\ sessions' = sessions + 1
    /\ tmp' = "profile"
    /\ run' = [run EXCEPT !.opened = TRUE]
    /\ trace' = trace \o Calls("launch")
    /\ UNCHANGED << exitStatus, i, visited, message, accounts, uploads,
                    results >>
    /\ UNCHANGED Ambient

\* The orchestrator enters state st (or stays in it).
Enter(st) == visited' = IF st = state THEN visited ELSE Append(visited, st)

Failed == Append(visited, "FAILED")

\* A statement of lines 237-243 that only advances: from pc at to pc next,
\* entering the orchestrator state st.
Advance(at, next, st) ==
    /\ pc = at
    /\ pc' = next
    /\ Enter(st)
    /\ trace' = trace \o Calls(at)
    /\ UNCHANGED << exitStatus, tmp, i, sessions, run, message, accounts,
                    uploads, results >>
    /\ UNCHANGED Ambient

\* Line 237.
CreateContext == Advance("createContext", "newPage", state)

\* Line 238.
NewPage == Advance("newPage", "type_name", state)

\* TypeName as it would be with line 241 left out.
TypeNameThenSubmit == Advance("type_name", "finish_form", "NAME_ENTERED")

\* Line 240.
TypeName == Advance("type_name", "type_password", "NAME_ENTERED")

\* Line 241.
TypePassword == Advance("type_password", "finish_form", "PASSWORD_ENTERED")

\* Line 242.
FinishForm == Advance("finish_form", "mail_login", "FORM_SUBMITTED")

\* Line 243.
MailLogin == Advance("mail_login", "get_mail", "MAILBOX_LOGGED_IN")

\* What one poll of the mailbox returns: a message, or none yet.
Polled == { None, Some("msg") }

\* GetMail as it would be with lines 245-246 in a loop that polls again
\* while no message has arrived.
GetMailUntilFound(m) ==
    /\ pc = "get_mail"
    /\ pc' = IF m = None THEN "get_mail" ELSE "initial_setup"
    /\ message' = m
    /\ run' = [run EXCEPT !.polls = @ + 1]
    /\ trace' = trace \o Calls("get_mail")
    /\ UNCHANGED << exitStatus, tmp, i, visited, sessions, accounts, uploads,
                    results >>
    /\ UNCHANGED Ambient

\* Lines 245-246: one sleep of 1.5 s, one poll.
GetMail(m) ==
    /\ pc = "get_mail"
    /\ pc' = "initial_setup"
    /\ message' = m
    /\ run' = [run EXCEPT !.polls = @ + 1]
    /\ trace' = trace \o Calls("get_mail")
    /\ UNCHANGED << exitStatus, tmp, i, visited, sessions, accounts, uploads,
                    results >>
    /\ UNCHANGED Ambient

\* Line 248, reached with a message: the verification link is followed.
InitialSetup ==
    /\ pc = "initial_setup"
    /\ message # None
    /\ pc' = "close"
    /\ Enter("VERIFIED")
    /\ run' = [run EXCEPT !.setupWith = "message"]
    /\ trace' = trace \o Calls("initial_setup")
    /\ UNCHANGED << exitStatus, tmp, i, sessions, message, accounts, uploads,
                    results >>
    /\ UNCHANGED Ambient

\* Line 248, reached without a message: register() does not test message,
\* initial_setup is called with None and has no link to follow.
InitialSetupNoMessage ==
    /\ pc = "initial_setup"
    /\ message = None
    /\ Enter("FAILED")
    /\ Raise([run EXCEPT !.setupWith = "None"], "initial_setup", Failed)
    /\ run' = [run EXCEPT !.setupWith = "None", !.error = "initial_setup"]
    /\ UNCHANGED << tmp, sessions, message, accounts, uploads >>
    /\ UNCHANGED Ambient

\* Close as it would be with the upload of lines 261-271 placed before
\* lines 258-259: the upload is reached with nothing persisted.
CloseThenUpload ==
    /\ pc = "close"
    /\ pc' = "upload"
    /\ Enter("DONE")
    /\ sessions' = sessions - 1
    /\ run' = [run EXCEPT !.closes = @ + 1]
    /\ trace' = trace \o Calls("close")
    /\ UNCHANGED << exitStatus, tmp, i, message, accounts, uploads, results >>
    /\ UNCHANGED Ambient

\* Lines 249-250: one sleep of 0.5 s, then the browser is closed.
Close ==
    /\ pc = "close"
    /\ pc' = "persist"
    /\ Enter("DONE")
    /\ sessions' = sessions - 1
    /\ run' = [run EXCEPT !.closes = @ + 1]
    /\ trace' = trace \o Calls("close")
    /\ UNCHANGED << exitStatus, tmp, i, message, accounts, uploads, results >>
    /\ UNCHANGED Ambient

\* One of the awaited calls raises.  No statement of register() runs after
\* it: in particular browser.close() does not, and autoClose is False.
StepFails ==
    /\ pc \in Awaited
    /\ Enter("FAILED")
    /\ Raise(run, pc, Failed)
    /\ run' = [run EXCEPT !.error = pc]
    /\ UNCHANGED << tmp, sessions, message, accounts, uploads >>
    /\ UNCHANGED Ambient

\* Persist as it would be with lines 258 and 259 exchanged.
PersistThenDeleteDefault ==
    /\ pc = "persist"
    /\ pc' = "upload"
    /\ accounts' = Append(accounts, [cred |-> credentials,
                                     format |-> Get(config).accountFormat])
    /\ run' = [run EXCEPT !.persisted = TRUE]
    /\ trace' = trace \o << Ev("save_credentials"), Ev("delete_default") >>
    /\ UNCHANGED << exitStatus, tmp, i, visited, sessions, message, uploads,
                    results >>
    /\ UNCHANGED Ambient

\* Lines 252-259: delete_default, then save_credentials.
Persist ==
    /\ pc = "persist"
    /\ pc' = "upload"
    /\ accounts' = Append(accounts, [cred |-> credentials,
                                     format |-> Get(config).accountFormat])
    /\ run' = [run EXCEPT !.persisted = TRUE]
    /\ trace' = trace \o << Ev("delete_default"), Ev("save_credentials") >>
    /\ UNCHANGED << exitStatus, tmp, i, visited, sessions, message, uploads,
                    results >>
    /\ UNCHANGED Ambient

\* Lines 261-271 as a function of the file system and console_args.file.
\* os.path.getsize is evaluated first and raises OSError for a path that
\* does not exist.
UploadDecision(files, file) ==
    IF file = None THEN "SKIP"
    ELSE IF ~exists(files, file) THEN "RAISE"
    ELSE LET file_size == getsize(files, file)
         IN  IF /\ exists(files, file)
                /\ SizeLess(Zero, file_size)
                /\ SizeLess(file_size, RejectLimit)
             THEN IF SizeLeq(WarnLimit, file_size)
                  THEN "ATTEMPT_WITH_WARNING"
                  ELSE "ATTEMPT"
             ELSE "REJECT"

\* What lines 264-271 print for a decision.
Printed(decision) ==
    CASE decision = "ATTEMPT_WITH_WARNING" -> { "File is larger than 5GB" }
      [] decision = "REJECT" -> { "File not found." }
      [] OTHER -> {}

\* Lines 261-271 when os.path.getsize returns.
Upload ==
    /\ pc = "upload"
    /\ LET decision == UploadDecision(fs, console_args.file)
       IN  /\ decision # "RAISE"
           /\ run' = [run EXCEPT !.decision = decision,
                                 !.printed = Printed(decision)]
           /\ IF decision \in { "ATTEMPT", "ATTEMPT_WITH_WARNING" }
              THEN /\ uploads' = Append(uploads,
                           [public |-> console_args.public,
                            file |-> console_args.file,
                            cred |-> credentials])
                   /\ trace' = Append(trace, Ev("upload_file"))
              ELSE UNCHANGED << uploads, trace >>
    /\ pc' = "return"
    /\ UNCHANGED << exitStatus, tmp, i, visited, sessions, message, accounts,
                    results >>
    /\ UNCHANGED Ambient

\* Line 262 when the path does not exist: os.path.getsize raises.
UploadRaises ==
    /\ pc = "upload"
    /\ UploadDecision(fs, console_args.file) = "RAISE"
    /\ Raise([run EXCEPT !.decision = "RAISE"], "getsize", visited)
    /\ run' = [run EXCEPT !.decision = "RAISE", !.error = "getsize"]
    /\ UNCHANGED << tmp, visited, sessions, message, accounts, uploads >>
    /\ UNCHANGED Ambient

\* Lines 272-273: sys.exit(0) unless --loop is above 1; otherwise
\* register() returns to line 220 and the loop goes on.
Return ==
    /\ pc = "return"
    /\ EndRun(run, visited)
    /\ trace' = Append(trace, Ev("return"))
    /\ IF SingleShot(console_args.loop)
       THEN /\ Exit(0)
            /\ UNCHANGED i
       ELSE /\ pc' = "loop"
            /\ i' = i + 1
            /\ UNCHANGED exitStatus
    /\ UNCHANGED << tmp, visited, sessions, run, message, accounts, uploads >>
    /\ UNCHANGED Ambient

(* ---------------- the specification ---------------- *)

Next ==
    \/ Main
    \/ \E typed \in TypedPaths, default \in DefaultConfigs : Setup(typed, default)
    \/ Dispatch
    \/ LoopIteration
    \/ LoopEnd
    \/ \E size \in ArchiveSizes : Single(size)
    \/ Launch
    \/ CreateContext
    \/ NewPage
    \/ TypeName
    \/ TypePassword
    \/ FinishForm
    \/ MailLogin
    \/ \E m \in Polled : GetMail(m)
    \/ InitialSetup
    \/ InitialSetupNoMessage
    \/ Close
    \/ StepFails
    \/ Persist
    \/ Upload
    \/ UploadRaises
    \/ Return

Spec == Init /\ [][Next]_vars

(* ---------------- helpers of the properties ---------------- *)

\* The register() calls that have ended.
Ended == { results[k] : k \in 1 .. Len(results) }

\* The orchestrator states in the order of the success path.
Order ==
    << "INIT", "NAME_ENTERED", "PASSWORD_ENTERED", "FORM_SUBMITTED",
       "MAILBOX_LOGGED_IN", "VERIFIED", "DONE" >>

Terminal == { "DONE", "FAILED" }

\* register() is between its first statement and its end.
InRegister == pc \in Awaited \cup { "persist", "upload", "return" }

\* vis is a history the state machine allows: a prefix of Order, followed
\* by FAILED only when the prefix stops before DONE.
Allowed(vis) ==
    LET n == Len(vis)
        failed == n > 0 /\ vis[n] = "FAILED"
        body == IF failed THEN SubSeq(vis, 1, n - 1) ELSE vis
    IN  /\ Len(body) >= 1
        /\ Len(body) <= Len(Order)
        /\ body = SubSeq(Order, 1, Len(body))
        /\ failed => body[Len(body)] # "DONE"

(* ---------------- C1 ---------------- *)

\* C1: every register() call that has ended, by success or by a failing
\* step, left no browser session open and closed the session it opened
\* exactly once; a call ended by a failing awaited step is in FAILED.
C1_SessionClosedOnEveryExit ==
    \A r \in Ended :
        /\ r.error \in Awaited => r.visited[Len(r.visited)] = "FAILED"
        /\ r.opened => r.closes = 1
        /\ r.open = 0

(* ---------------- C2 ---------------- *)

\* C2: the states of a register() call are entered in the order INIT,
\* NAME_ENTERED, PASSWORD_ENTERED, FORM_SUBMITTED, MAILBOX_LOGGED_IN,
\* VERIFIED, DONE, none skipped, repeated or reordered; a call that ends
\* without an error has entered all of them; nothing follows DONE or
\* FAILED; and in every non-terminal state a step that leads to FAILED is
\* possible.
C2_StatesInOrder ==
    /\ InRegister => Allowed(visited)
    /\ \A r \in Ended : /\ Allowed(r.visited)
                        /\ r.error = "none" => r.visited = Order
    /\ (InRegister /\ state \notin Terminal) =>
           ENABLED (StepFails /\ state' = "FAILED")

\* A call ended on the success path, all seven states entered.
C2_Witness == \E r \in Ended : r.error = "none" /\ r.visited = Order

(* ---------------- C3 ---------------- *)

RECURSIVE Select(_, _)
\* The events of t whose op is in ops, in order.
Select(t, ops) ==
    IF t = << >> THEN << >>
    ELSE IF t[1].op \in ops THEN << t[1] >> \o Select(Tail(t), ops)
    ELSE Select(Tail(t), ops)

\* The batch events: resets, generations, calls of register() and returns.
BatchEvents == Select(trace, { "clear_tmp", "generate_mail", "register", "return" })

\* The Credentials passed to the calls of register(), in order.
Passed == Select(trace, { "register" })

\* The batch ran to the end of its loop with no attempt raising.
BatchSucceeded ==
    /\ pc = "exited"
    /\ ~SingleShot(console_args.loop)
    /\ results # << >>
    /\ \A r \in Ended : r.error = "none"

\* C3: when a batch of N iterations ends with every attempt successful,
\* register() was called N times and clear_tmp N times, in the order
\* (clear_tmp, generate_mail, register, return) per iteration, so each
\* reset follows the previous call's return and precedes its own call;
\* the Credentials passed to the k-th call is the one generated in the
\* k-th iteration, and no Credentials is passed to two calls.
C3_BatchCallsAndResets ==
    /\ BatchSucceeded =>
          LET N == Get(console_args.loop)
          IN  /\ Len(results) = N
              /\ Len(BatchEvents) = 4 * N
              /\ \A k \in 1 .. N :
                    /\ BatchEvents[4 * k - 3].op = "clear_tmp"
                    /\ BatchEvents[4 * k - 2].op = "generate_mail"
                    /\ BatchEvents[4 * k - 1].op = "register"
                    /\ BatchEvents[4 * k].op = "return"
                    /\ BatchEvents[4 * k - 2].cred = k
                    /\ BatchEvents[4 * k - 1].cred = k
                    /\ results[k].cred = k
    /\ \A a, b \in 1 .. Len(Passed) : Passed[a].cred = Passed[b].cred => a = b

\* A batch of at least three iterations that ran to its end.
C3_Witness == BatchSucceeded /\ Len(results) >= 3

(* ---------------- C4 ---------------- *)

\* C4: in batch mode a failing attempt does not abort the batch: when the
\* process has ended, all N iterations were started.
C4_FailureDoesNotAbortBatch ==
    (pc = "exited" /\ ~SingleShot(console_args.loop) /\ results # << >>) =>
        Len(results) = Get(console_args.loop)

(* ---------------- C10 ---------------- *)

\* The resets of the working directory made so far.
Resets == Select(trace, { "clear_tmp" })

\* C10: at most one browser session is alive at any time, and no
\* clear_tmp is made while a session rooted at ./tmp is alive.
C10_OneSessionNoResetWhileOpen ==
    /\ sessions <= 1
    /\ \A k \in 1 .. Len(Resets) : Resets[k].open = 0

\* The second iteration of a batch has its browser open, after a reset
\* that followed the first iteration's close.
C10_Witness ==
    /\ ~SingleShot(console_args.loop)
    /\ Len(results) >= 1
    /\ Len(Resets) >= 2
    /\ sessions = 1

(* ---------------- C5 ---------------- *)

\* The reference rule of the upload gate for a path that is present or
\* not and has size s.
RefDecision(present, s) ==
    IF ~present \/ SizeLeq(s, Zero) \/ SizeLeq(RejectLimit, s) THEN "REJECT"
    ELSE IF SizeLeq(WarnLimit, s) THEN "ATTEMPT_WITH_WARNING"
    ELSE "ATTEMPT"

\* The register() calls that have passed lines 261-271 with an upload path;
\* console_args.file and the files it may name no longer change by then.
Decided ==
    { r \in Ended \cup { run } : r.decision \notin { "none", "SKIP" } }

\* upload_file was called for the account of r.
Uploaded(r) == \E k \in 1 .. Len(uploads) : uploads[k].cred = r.cred

\* C5: the upload decision of register() is the reference rule's for every
\* path and size: REJECT prints the failure message and does not call
\* upload_file, ATTEMPT calls it and prints nothing, ATTEMPT_WITH_WARNING
\* prints the warning and calls it.
C5_UploadDecisionMatchesRule ==
    \A r \in Decided :
        LET ref == RefDecision(exists(fs, console_args.file),
                               getsize(fs, console_args.file))
        IN  /\ r.decision = ref
            /\ ref = "REJECT" =>
                   ~Uploaded(r) /\ r.printed = { "File not found." }
            /\ ref = "ATTEMPT" => Uploaded(r) /\ r.printed = {}
            /\ ref = "ATTEMPT_WITH_WARNING" =>
                   Uploaded(r) /\ r.printed = { "File is larger than 5GB" }

(* ---------------- C6 ---------------- *)

\* C6: a missing or out-of-bounds upload path only skips the upload: the
\* call that persisted the credentials ends without an error, and in
\* single-shot mode the process exits with status 0.
C6_FileErrorSkipsUploadOnly ==
    \A r \in Ended :
        ( /\ r.persisted
          /\ console_args.file # None
          /\ RefDecision(exists(fs, console_args.file),
                         getsize(fs, console_args.file)) = "REJECT" )
        => /\ r.error = "none"
           /\ SingleShot(console_args.loop) => exitStatus = Some(0)

(* ---------------- C7 ---------------- *)

\* C7: in single-shot and in batch mode alike, the path on which
\* register() made its existence and size checks, and the path it passed to
\* upload_file, is never a directory: a directory given by the caller was
\* replaced by its archive before register() began.
C7_DirectoryArchivedInBothModes ==
    /\ Decided # {} => ~isdir(fs, console_args.file)
    /\ \A k \in 1 .. Len(uploads) : ~isdir(fs, uploads[k].file)

(* ---------------- C8 ---------------- *)

\* C8: every attempt that has ended is either verified and persisted
\* without an error, or carries an error and persisted nothing.
C8_PersistedOrError ==
    \A r \in Ended :
        \/ r.error = "none" /\ r.persisted /\ r.setupWith = "message"
        \/ r.error # "none" /\ ~r.persisted

(* ---------------- C9 ---------------- *)

\* C9: every register() call ends in DONE or FAILED, and initial_setup is
\* never called without a verification message: a poll that finds none
\* ends the call in FAILED before line 248.
C9_NoSetupWithoutMessage ==
    /\ run.setupWith # "None"
    /\ \A r \in Ended : /\ r.visited[Len(r.visited)] \in Terminal
                        /\ r.setupWith # "None"

(* ---------------- C11 ---------------- *)

\* setup() ended the process: no path was configured and the path typed
\* does not exist (or, line 285, setup() returned an empty path).
SetupFailed ==
    /\ pc = "exited"
    /\ config # None
    /\ ~ExecutableExists(executable_path)

\* C11: when setup() finds no configured executable and the typed path does
\* not exist, the process exits with status 1 and no reset of the working
\* directory, no generation of Credentials, no browser launch and no
\* write_config has happened; any of the provisioning calls is made only
\* after setup() returned a Config and a non-empty executable path.
C11_SetupErrorStopsBeforeProvisioning ==
    /\ SetupFailed =>
          /\ exitStatus = Some(1)
          /\ Select(trace, { "clear_tmp", "generate_mail", "register",
                             "launch", "write_config" }) = << >>
          /\ results = << >>
    /\ Select(trace, { "clear_tmp", "generate_mail", "register", "launch" })
           # << >> => config # None /\ executable_path # ""

\* The user typed a path that does not exist and the process has ended.
C11_Witness == SetupFailed /\ executable_path = "bogus"

(* ---------------- C12 ---------------- *)

\* The places of the trace where op was called for the Credentials c; each
\* register() call has a Credentials of its own.
At(op, c) == { k \in 1 .. Len(trace) : trace[k].op = op /\ trace[k].cred = c }

\* The call at place k of the trace returned: no exception follows it.
Returned(k) == k < Len(trace) => trace[k + 1].op # "raise"

\* The states of vis, as a set.
Entered(vis) == { vis[k] : k \in 1 .. Len(vis) }

\* C12: in every register() call save_credentials is called at most once,
\* after initial_setup has returned and the browser was closed;
\* delete_default is called before it and never after it; a call that
\* fails before VERIFIED persists nothing.
C12_PersistOnceAfterVerifyAndClose ==
    /\ \A c \in 1 .. generated :
          /\ Cardinality(At("save_credentials", c)) <= 1
          /\ \A k \in At("save_credentials", c) :
                /\ trace[k].open = 0
                /\ \E a \in At("initial_setup", c), b \in At("close", c),
                      d \in At("delete_default", c) :
                       /\ a < b /\ b < d /\ d < k
                       /\ Returned(a) /\ Returned(b)
                /\ \A d \in At("delete_default", c) : d < k
    /\ \A r \in Ended :
          "VERIFIED" \notin Entered(r.visited) =>
              ~r.persisted /\ At("save_credentials", r.cred) = {}
    /\ Len(accounts) = Len(Select(trace, { "save_credentials" }))

\* The second attempt of a batch has persisted its credentials.
C12_Witness == Len(accounts) >= 2 /\ run.persisted

(* ---------------- C13 ---------------- *)

\* The calls that belong to provisioning.
Provisioning ==
    Select(trace, { "clear_tmp", "generate_mail", "archive_folder", "register" })

\* C13: no step of loop_registrations() or register(), nor any step other
\* than setup(), changes the Config value or the configuration file; setup()
\* runs before any provisioning call, and it changes an existing
\* configuration only in executablePath and only by a write_config call.
\* So every iteration of a batch is passed the Config that setup() returned.
C13_ConfigReadOnly ==
    [][ /\ pc # "setup" => config' = config /\ configFile' = configFile
        /\ pc = "setup" => Provisioning = << >>
        /\ (pc = "setup" /\ configFile # None /\ configFile' # configFile) =>
              /\ trace' = Append(trace, Ev("write_config"))
              /\ Get(configFile').accountFormat = Get(configFile).accountFormat ]_vars

\* The second iteration of a batch runs register() after setup() has
\* called write_config.
C13_Witness ==
    /\ InRegister
    /\ Len(results) >= 1
    /\ Select(trace, { "write_config" }) # << >>

(* ---------------- C14 ---------------- *)

\* The steps of register() that the orchestrator must not retry.
Steps ==
    { "type_name", "type_password", "finish_form", "mail_login", "get_mail",
      "initial_setup" }

\* C14: within one register() call each of type_name, type_password,
\* finish_form, mail_login, get_mail and initial_setup is called at most
\* once; get_mail is called right after the sleep that follows a mail_login
\* that returned; a call that ends without an error polled exactly once.
C14_NoStepRetried ==
    /\ \A c \in 1 .. generated :
          /\ \A op \in Steps : Cardinality(At(op, c)) <= 1
          /\ \A k \in At("get_mail", c) :
                /\ k >= 3
                /\ trace[k - 1].op = "sleep" /\ trace[k - 1].cred = c
                /\ trace[k - 2].op = "mail_login" /\ trace[k - 2].cred = c
    /\ run.polls <= 1
    /\ \A r \in Ended :
          r.error = "none" =>
              r.polls = 1 /\ Cardinality(At("get_mail", r.cred)) = 1

\* The one poll found no message and register() has moved on to line 248.
C14_Witness == pc = "initial_setup" /\ run.polls = 1 /\ message = None

(* ---------------- C15 ---------------- *)

\* The process has ended after at least one register() call ended.
ExitedAfterAttempt == pc = "exited" /\ results # << >>

\* The register() call that ended last.
LastResult == results[Len(results)]

\* With --loop absent or <= 1 one attempt is made, and status 0 comes only
\* after the credentials were persisted and the upload decision taken.
SingleShotExit ==
    (ExitedAfterAttempt /\ SingleShot(console_args.loop)) =>
        /\ Len(results) = 1
        /\ exitStatus = Some(0) =>
               LastResult.persisted /\ LastResult.decision # "none"

\* With --loop > 1 register() does not end the process: attempts that all
\* succeed run to the end of the batch.
BatchNotCutShort ==
    (ExitedAfterAttempt /\ ~SingleShot(console_args.loop)
        /\ \A r \in Ended : r.error = "none") =>
        Len(results) = Get(console_args.loop)

\* A failed attempt does not end the process with status 0.
FailedAttemptNotZero ==
    (ExitedAfterAttempt /\ LastResult.error # "none") => exitStatus # Some(0)

\* C15: the exit taken in register() depends only on --loop (single-shot:
\* one attempt, status 0 only after persist and upload decision; batch:
\* register() never ends the process), and the exit status of a failed
\* attempt differs both from 0 and from the status 1 by which setup()
\* reports its failure (line 143).
C15_ExitStatusTellsAttemptFromSetup ==
    /\ SingleShotExit
    /\ BatchNotCutShort
    /\ FailedAttemptNotZero
    /\ (ExitedAfterAttempt /\ LastResult.error # "none") => exitStatus # Some(1)

(* ---------------- C16 ---------------- *)

\* C16: upload_file is called at most once per register() call, with no
\* browser session alive, after initial_setup and browser.close returned
\* and save_credentials was called for the same Credentials; a call that
\* entered FAILED uploaded nothing, and nothing is uploaded when no upload
\* path was given.
C16_UploadOnlyAfterPersist ==
    /\ \A c \in 1 .. generated :
          /\ Cardinality(At("upload_file", c)) <= 1
          /\ \A k \in At("upload_file", c) :
                /\ trace[k].open = 0
                /\ \E a \in At("initial_setup", c), b \in At("close", c),
                      d \in At("save_credentials", c) :
                       /\ a < b /\ b < d /\ d < k
                       /\ Returned(a) /\ Returned(b)
    /\ Len(uploads) = Len(Select(trace, { "upload_file" }))
    /\ \A k \in 1 .. Len(uploads) :
          \E a \in 1 .. Len(accounts) : accounts[a].cred = uploads[k].cred
    /\ \A r \in Ended : "FAILED" \in Entered(r.visited) => ~Uploaded(r)
    /\ console_args.file = None => uploads = << >>

\* Two attempts of a batch have each uploaded the file.
C16_Witness == Len(uploads) >= 2

====
